---- MODULE Spec2Model ----
(***************************************************************************)
(* Model of the helfertool registration core:                              *)
(*   registration/models/job.py      Job, job_pre_save                     *)
(*   registration/views/registration.py   form                             *)
(***************************************************************************)
EXTENDS Integers, Sequences, FiniteSets, TLC

\* ------------------------------------------------------------------ bounds
NumShifts == 3          \* primary keys of Shift rows are 1..NumShifts
NumDays == 2            \* calendar days covered by the begin timestamps
MaxLen == 3             \* longest shift list passed to shifts_by_day
NumUsers == 2           \* primary keys of User rows are 1..NumUsers
NumHelpers == 2         \* primary keys of Helper rows are 1..NumHelpers
MaxBadgeRows == 3       \* most BadgeDefaults rows created in one run
NumInsts == 2           \* Job objects held in memory at a time
NumLinks == 2           \* primary keys of Link rows are 1..NumLinks
MaxRegistrations == 2   \* most Helper rows saved by the form in one run
MaxValidateCalls == 3   \* most calls of the view validate in one run

\* the begin timestamps within one calendar day
Slots == {0, 1}
DayLen == Cardinality(Slots)
\* the null foreign key / primary key that no row has
NULL == 0

Shifts == 1..NumShifts
Jobs == {1, 2}
Events == {1, 2}
Users == 1..NumUsers
Helpers == 1..NumHelpers
Insts == 1..NumInsts
Links == 1..NumLinks
Validators == {1, 2}
Times == 0..(NumDays * DayLen - 1)

VARIABLES
    shift_job,      \* Shift.job of every shift row (NULL: the row does not exist)
    shift_begin,    \* Shift.begin of every shift row
    job_event,      \* Job.event of every job row
    job_admins,     \* Job.job_admins of every job row
    event_admins,   \* the users that Event.is_admin accepts, per event
    archived,       \* Event.archived of every event row
    coordinators,   \* Job.coordinators of every job row
    archived_number_coordinators,   \* the column of every job row
    helper_shifts,  \* Helper.shifts of every helper row
    badges,         \* Event.badges of every event row
    badge_defaults, \* Job.badge_defaults of every job row (NULL or a row pk)
    badge_rows,     \* the BadgeDefaults rows are 1..badge_rows
    created_for,    \* how many BadgeDefaults rows the saves of each job created
    inst,           \* the Job objects in memory: pk and badge_defaults
    active,         \* Event.active of every event row
    involved,       \* the users that Event.is_involved accepts, per event
    helper_rows,    \* the Helper rows saved by the form are 1..helper_rows
    mail_attempts,  \* the number of calls of Helper.send_mail so far
    req,            \* the request that the view form is handling
    mail_validation,    \* Event.mail_validation of every event row
    helper_validated,   \* Helper.validated of every helper row
    vreq,           \* the requests that the view validate is handling
    validate_log,   \* per helper, the already_validated flags rendered so far
    last            \* the most recent call: its name, arguments and return value

shiftVars == <<shift_job, shift_begin>>
adminVars == <<job_event, job_admins, event_admins>>
coordVars == <<archived, coordinators, archived_number_coordinators,
               helper_shifts>>
badgeVars == <<badges, badge_defaults, badge_rows, created_for, inst>>
formVars == <<active, involved, helper_rows, mail_attempts, req>>
validateVars == <<mail_validation, helper_validated, vreq, validate_log>>
vars == <<shiftVars, adminVars, coordVars, badgeVars, formVars, validateVars,
          last>>

NoCall == [op |-> "none", job |-> NULL, arg |-> <<>>, ret |-> <<>>]

\* the state of the other components while one component is explored
ShiftsIdle ==
    /\ shift_job = [s \in Shifts |-> IF s % 3 = 0 THEN 2 ELSE 1]
    /\ shift_begin = [s \in Shifts |-> 0]

AdminIdle ==
    /\ job_event = <<1, 2>>
    /\ job_admins = [j \in Jobs |-> {}]
    /\ event_admins = [e \in Events |-> {}]

CoordIdle ==
    /\ archived = [e \in Events |-> FALSE]
    /\ coordinators = [j \in Jobs |-> {}]
    /\ archived_number_coordinators = [j \in Jobs |-> 0]
    /\ helper_shifts = [h \in Helpers |-> {}]

\* a Job object that has not been loaded
NoInst == [job |-> NULL, badge_defaults |-> NULL]

BadgeIdle ==
    /\ badges = [e \in Events |-> FALSE]
    /\ badge_defaults = [j \in Jobs |-> NULL]
    /\ badge_rows = 0
    /\ created_for = [j \in Jobs |-> 0]
    /\ inst = [i \in Insts |-> NoInst]

\* no request: every field of the request record at its start value
NoRequest ==
    [pc |-> "idle", url |-> NULL, link_pk |-> NULL, user |-> NULL,
     data |-> "GET", event |-> NULL, event_active |-> FALSE, link |-> NULL,
     helper |-> NULL, mail |-> "none", messages |-> <<>>,
     response |-> "none", redirect |-> <<>>,
     rows_before |-> 0, mails_before |-> 0]

FormIdle ==
    /\ active = [e \in Events |-> FALSE]
    /\ involved = [e \in Events |-> {}]
    /\ helper_rows = 0
    /\ mail_attempts = 0
    /\ req = NoRequest

\* no request for validate: every field of the record at its start value
NoValidate ==
    [pc |-> "idle", url |-> NULL, helper_pk |-> NULL, event_validation |-> FALSE,
     validated |-> FALSE, already_validated |-> FALSE, response |-> "none"]

ValidateIdle ==
    /\ mail_validation = [e \in Events |-> FALSE]
    /\ helper_validated = [h \in Helpers |-> FALSE]
    /\ vreq = [v \in Validators |-> NoValidate]
    /\ validate_log = [h \in Helpers |-> <<>>]

\* ------------------------------------------------------- Job.shifts_by_day

\* shift.begin.date()
Date(t) == t \div DayLen

\* self.shift_set.all(): the shift rows of the job, in primary key order
RECURSIVE ShiftSetUpTo(_, _)
ShiftSetUpTo(job, n) ==
    IF n = 0 THEN <<>>
    ELSE IF shift_job[n] = job THEN Append(ShiftSetUpTo(job, n - 1), n)
         ELSE ShiftSetUpTo(job, n - 1)

ShiftSetAll(job) == ShiftSetUpTo(job, NumShifts)

\* the shifts argument: None (supplied = FALSE) or a list of shifts
None == [supplied |-> FALSE, items |-> <<>>]
Given(items) == [supplied |-> TRUE, items |-> items]

\* `not shifts`: None and the empty list are both falsy
Falsy(shifts) == ~shifts.supplied \/ Len(shifts.items) = 0

EffectiveShifts_OnlyNone(job, shifts) ==
    IF ~shifts.supplied THEN ShiftSetAll(job) ELSE shifts.items

EffectiveShifts_NoDefault(job, shifts) == shifts.items

\* lines 112-114: no shifts are given -> use all shifts of this job
EffectiveShifts(job, shifts) ==
    IF Falsy(shifts) THEN ShiftSetAll(job) ELSE shifts.items

\* position of the entry of `day` in the dict (0: day is not a key)
RECURSIVE KeyIndex(_, _, _)
KeyIndex(tmp, day, i) ==
    IF i > Len(tmp) THEN 0
    ELSE IF tmp[i][1] = day THEN i
         ELSE KeyIndex(tmp, day, i + 1)

GroupStep_Overwrite(tmp, shift) ==
    LET day == Date(shift_begin[shift])
        i == KeyIndex(tmp, day, 1)
    IN  IF i # 0 THEN [tmp EXCEPT ![i] = <<day, <<shift>> >>]
        ELSE Append(tmp, <<day, <<shift>> >>)

\* lines 119-126: one iteration of the grouping loop; the dict tmp_shifts is
\* the sequence of its (day, list) items in insertion order
GroupStep(tmp, shift) ==
    LET day == Date(shift_begin[shift])
        i == KeyIndex(tmp, day, 1)
    IN  IF i # 0 THEN [tmp EXCEPT ![i] = <<day, Append(tmp[i][2], shift)>>]
        ELSE Append(tmp, <<day, <<shift>> >>)

\* lines 118-126: the grouping loop
RECURSIVE GroupByDay(_, _)
GroupByDay(shifts, tmp) ==
    IF shifts = <<>> THEN tmp
    ELSE GroupByDay(Tail(shifts), GroupStep(tmp, Head(shifts)))

\* sorted(): stable insertion of x behind every element whose key is <= key
RECURSIVE InsertDay(_, _)
InsertDay(sorted, item) ==
    IF sorted = <<>> THEN <<item>>
    ELSE IF item[1] < Head(sorted)[1] THEN <<item>> \o sorted
         ELSE <<Head(sorted)>> \o InsertDay(Tail(sorted), item)

RECURSIVE SortDaysFrom(_, _)
SortDaysFrom(items, sorted) ==
    IF items = <<>> THEN sorted
    ELSE SortDaysFrom(Tail(items), InsertDay(sorted, Head(items)))

SortDays_Unsorted(items) == items

\* lines 129-130: OrderedDict(sorted(tmp_shifts.items(), key=lambda t: t[0]))
SortDays(items) == SortDaysFrom(items, <<>>)

RECURSIVE InsertShift(_, _)
InsertShift(sorted, shift) ==
    IF sorted = <<>> THEN <<shift>>
    ELSE IF shift_begin[shift] < shift_begin[Head(sorted)]
         THEN <<shift>> \o sorted
         ELSE <<Head(sorted)>> \o InsertShift(Tail(sorted), shift)

RECURSIVE SortShiftsFrom(_, _)
SortShiftsFrom(list, sorted) ==
    IF list = <<>> THEN sorted
    ELSE SortShiftsFrom(Tail(list), InsertShift(sorted, Head(list)))

SortShifts_Unsorted(list) == list

SortShifts_TiesReversed(list) ==
    SortShiftsFrom([i \in 1..Len(list) |-> list[Len(list) + 1 - i]], <<>>)

\* lines 134-135: sorted(ordered_shifts[day], key=lambda s: s.begin)
SortShifts(list) == SortShiftsFrom(list, <<>>)

\* lines 101-137: Job.shifts_by_day(shifts), the ordered mapping as the
\* sequence of its (day, list of shifts) items
shifts_by_day(job, shifts) ==
    LET tmp_shifts == GroupByDay(EffectiveShifts(job, shifts), <<>>)
        ordered_shifts == SortDays(tmp_shifts)
    IN  [i \in 1..Len(ordered_shifts) |->
            <<ordered_shifts[i][1], SortShifts(ordered_shifts[i][2])>>]

Range(seq) == {seq[i] : i \in 1..Len(seq)}

\* the duplicate-free lists of at most n elements of the set
RECURSIVE ListsOver(_, _)
ListsOver(set, n) ==
    IF n = 0 THEN {<<>>}
    ELSE LET shorter == ListsOver(set, n - 1)
         IN  shorter \cup
             UNION {{Append(l, s) : s \in set \ Range(l)} :
                        l \in {m \in shorter : Len(m) = n - 1}}

\* the collections of the job's shifts a caller can pass, at most MaxLen long
ShiftLists(job) ==
    ListsOver({s \in Shifts : shift_job[s] = job}, MaxLen)

\* a caller evaluates job.shifts_by_day() or job.shifts_by_day(shifts)
ShiftsByDayCall(job, shifts) ==
    /\ last = NoCall
    /\ last' = [op |-> "shifts_by_day", job |-> job, arg |-> shifts,
                ret |-> shifts_by_day(job, shifts)]
    /\ UNCHANGED <<validateVars, formVars, shiftVars, badgeVars, adminVars, coordVars>>

ShiftsByDayDefault ==
    \E job \in Jobs : ShiftsByDayCall(job, None)

ShiftsByDayGiven ==
    \E job \in Jobs : \E l \in ShiftLists(job) : ShiftsByDayCall(job, Given(l))

InitShifts ==
    /\ shift_job \in [Shifts -> Jobs]
    /\ shift_begin \in [Shifts -> Times]
    /\ AdminIdle
    /\ CoordIdle
    /\ BadgeIdle
    /\ FormIdle
    /\ ValidateIdle
    /\ last = NoCall

NextShifts == ShiftsByDayDefault \/ ShiftsByDayGiven

SpecShifts == InitShifts /\ [][NextShifts]_vars

\* ------------------------------------------- claims about Job.shifts_by_day

\* the days that are keys of the ordered mapping
RetKeys(ret) == {ret[i][1] : i \in 1..Len(ret)}

\* the places (key index, list index) at which the shift appears in the mapping
Places(ret, shift) ==
    {p \in UNION {{<<i, k>> : k \in 1..Len(ret[i][2])} : i \in 1..Len(ret)} :
        ret[p[1]][2][p[2]] = shift}

RetShifts(ret) == UNION {Range(ret[i][2]) : i \in 1..Len(ret)}

\* ret groups exactly the shifts of the set S by day, days and shifts ascending
GroupsExactly(ret, S) ==
    /\ RetKeys(ret) = {Date(shift_begin[s]) : s \in S}
    /\ RetShifts(ret) = S
    /\ \A s \in S :
        /\ Cardinality(Places(ret, s)) = 1
        /\ \A p \in Places(ret, s) : ret[p[1]][1] = Date(shift_begin[s])
    /\ \A i \in 1..Len(ret) : \A k \in 1..Len(ret) :
        i < k => ret[i][1] < ret[k][1]
    /\ \A i \in 1..Len(ret) : \A k \in 1..Len(ret[i][2]) :
        \A m \in 1..Len(ret[i][2]) :
            k < m => shift_begin[ret[i][2][k]] <= shift_begin[ret[i][2][m]]

\* C1: for every collection S of shifts of one job passed to shifts_by_day,
\* the keys of the result are exactly the dates of S, every shift of S appears
\* exactly once under its own date, keys ascend and shifts ascend by begin.
C1_GroupsPassedCollection ==
    (last.op = "shifts_by_day" /\ last.arg.supplied)
        => GroupsExactly(last.ret, Range(last.arg.items))

\* C2: shifts_by_day called with no collection returns the same ordered
\* mapping as shifts_by_day called with the job's full shift set.
C2_DefaultEqualsFullShiftSet ==
    /\ (last.op = "shifts_by_day" /\ ~last.arg.supplied)
        => last.ret = shifts_by_day(last.job, Given(ShiftSetAll(last.job)))
    /\ (last.op = "shifts_by_day" /\ last.arg = Given(ShiftSetAll(last.job)))
        => last.ret = shifts_by_day(last.job, None)

\* a call without a collection for a job with shifts on two days, one of them
\* with two shifts
C2_Witness ==
    /\ last.op = "shifts_by_day"
    /\ ~last.arg.supplied
    /\ Len(last.ret) = 2
    /\ \E i \in 1..2 : Len(last.ret[i][2]) = 2

\* C3: an explicitly supplied collection, the empty one included, gives a
\* result with exactly the supplied shifts (the empty collection gives the
\* empty mapping); the job's own shift set is used only when none is supplied.
C3_SuppliedCollectionIsUsed ==
    last.op = "shifts_by_day" =>
        IF last.arg.supplied
        THEN /\ RetShifts(last.ret) = Range(last.arg.items)
             /\ (last.arg.items = <<>> => last.ret = <<>>)
        ELSE RetShifts(last.ret) = Range(ShiftSetAll(last.job))

\* ------------------------------------------------------------ Job.is_admin

\* User.is_superuser
IsSuperuser(user) == user = 1

\* Event.is_admin(user): superusers and the admins of the event
EventIsAdmin(event, user) == IsSuperuser(user) \/ user \in event_admins[event]

JobIsAdmin_JobAdminsOnly(job, user) == user \in job_admins[job]

JobIsAdmin_AnyEvent(job, user) ==
    (\E e \in Events : EventIsAdmin(e, user)) \/ user \in job_admins[job]

\* lines 83-94: Job.is_admin(user)
JobIsAdmin(job, user) ==
    EventIsAdmin(job_event[job], user) \/ user \in job_admins[job]

IsAdminCall ==
    \E job \in Jobs : \E user \in Users :
        /\ last' = [op |-> "is_admin", job |-> job, arg |-> user,
                    ret |-> JobIsAdmin(job, user)]
        /\ UNCHANGED <<validateVars, formVars, shiftVars, badgeVars, adminVars, coordVars>>

\* job.job_admins.add(user)
AddJobAdmin ==
    \E job \in Jobs : \E user \in Users \ job_admins[job] :
        /\ job_admins' = [job_admins EXCEPT ![job] = @ \cup {user}]
        /\ last' = NoCall
        /\ UNCHANGED <<validateVars, formVars, shiftVars, badgeVars, coordVars, job_event, event_admins>>

\* job.job_admins.remove(user)
RemoveJobAdmin ==
    \E job \in Jobs : \E user \in job_admins[job] :
        /\ job_admins' = [job_admins EXCEPT ![job] = @ \ {user}]
        /\ last' = NoCall
        /\ UNCHANGED <<validateVars, formVars, shiftVars, badgeVars, coordVars, job_event, event_admins>>

\* a user becomes admin of an event
AddEventAdmin ==
    \E event \in Events : \E user \in Users \ event_admins[event] :
        /\ event_admins' = [event_admins EXCEPT ![event] = @ \cup {user}]
        /\ last' = NoCall
        /\ UNCHANGED <<validateVars, formVars, shiftVars, badgeVars, coordVars, job_event, job_admins>>

\* a user stops being admin of an event
RemoveEventAdmin ==
    \E event \in Events : \E user \in event_admins[event] :
        /\ event_admins' = [event_admins EXCEPT ![event] = @ \ {user}]
        /\ last' = NoCall
        /\ UNCHANGED <<validateVars, formVars, shiftVars, badgeVars, coordVars, job_event, job_admins>>

\* the two jobs belong to one event or to two events
InitAdmin ==
    /\ ShiftsIdle
    /\ job_event \in {<<1, 1>>, <<1, 2>>}
    /\ job_admins = [j \in Jobs |-> {}]
    /\ event_admins = [e \in Events |-> {}]
    /\ CoordIdle
    /\ BadgeIdle
    /\ FormIdle
    /\ ValidateIdle
    /\ last = NoCall

NextAdmin ==
    \/ IsAdminCall
    \/ AddJobAdmin
    \/ RemoveJobAdmin
    \/ AddEventAdmin
    \/ RemoveEventAdmin

SpecAdmin == InitAdmin /\ [][NextAdmin]_vars

\* C4: Job.is_admin(user) is true if and only if the user is a superuser or an
\* admin of the job's event or listed in the job's job_admins; an event admin
\* is admin of every job of that event, a user who is none of these of no job.
C4_IsAdminIff ==
    last.op = "is_admin" =>
        LET job == last.job
            user == last.arg
        IN  /\ last.ret = (\/ IsSuperuser(user)
                           \/ user \in event_admins[job_event[job]]
                           \/ user \in job_admins[job])
            /\ user \in event_admins[job_event[job]] => last.ret = TRUE
            /\ (/\ ~IsSuperuser(user)
                /\ user \notin event_admins[job_event[job]]
                /\ user \notin job_admins[job]) => last.ret = FALSE

\* is_admin answered TRUE for an event admin who is neither superuser nor
\* listed in job_admins, while the other job of the same event exists
C4_Witness ==
    /\ last.op = "is_admin"
    /\ last.ret = TRUE
    /\ ~IsSuperuser(last.arg)
    /\ last.arg \notin job_admins[last.job]
    /\ last.arg \in event_admins[job_event[last.job]]
    /\ job_event = <<1, 1>>

\* ------------------------------------------------------ Job.num_coordinators

NumCoordinators_AlwaysLive(job) == Cardinality(coordinators[job])

NumCoordinators_AlwaysFrozen(job) == archived_number_coordinators[job]

\* lines 76-81: the property Job.num_coordinators
NumCoordinators(job) ==
    IF archived[job_event[job]]
    THEN archived_number_coordinators[job]
    ELSE Cardinality(coordinators[job])

NumCoordinatorsCall ==
    \E job \in Jobs :
        /\ last' = [op |-> "num_coordinators", job |-> job, arg |-> <<>>,
                    ret |-> NumCoordinators(job)]
        /\ UNCHANGED <<validateVars, formVars, shiftVars, badgeVars, adminVars, coordVars>>

\* job.coordinators.add(helper)
AddCoordinator ==
    \E job \in Jobs : \E helper \in Helpers \ coordinators[job] :
        /\ coordinators' = [coordinators EXCEPT ![job] = @ \cup {helper}]
        /\ last' = NoCall
        /\ UNCHANGED <<validateVars, formVars, shiftVars, badgeVars, adminVars, archived,
                       archived_number_coordinators, helper_shifts>>

\* job.coordinators.remove(helper)
RemoveCoordinator ==
    \E job \in Jobs : \E helper \in coordinators[job] :
        /\ coordinators' = [coordinators EXCEPT ![job] = @ \ {helper}]
        /\ last' = NoCall
        /\ UNCHANGED <<validateVars, formVars, shiftVars, badgeVars, adminVars, archived,
                       archived_number_coordinators, helper_shifts>>

\* archiving an event: one atomic snapshot of the coordinator counts of its
\* jobs, then the event is flagged archived
ArchiveEvent ==
    \E event \in Events :
        /\ ~archived[event]
        /\ archived' = [archived EXCEPT ![event] = TRUE]
        /\ archived_number_coordinators' =
            [j \in Jobs |-> IF job_event[j] = event
                            THEN Cardinality(coordinators[j])
                            ELSE archived_number_coordinators[j]]
        /\ last' = NoCall
        /\ UNCHANGED <<validateVars, formVars, shiftVars, badgeVars, adminVars, coordinators, helper_shifts>>

InitCoord ==
    /\ ShiftsIdle
    /\ AdminIdle
    /\ CoordIdle
    /\ BadgeIdle
    /\ FormIdle
    /\ ValidateIdle
    /\ last = NoCall

NextCoord ==
    \/ NumCoordinatorsCall
    \/ AddCoordinator
    \/ RemoveCoordinator
    \/ ArchiveEvent

SpecCoord == InitCoord /\ [][NextCoord]_vars

\* num_coordinators has the value the claim gives it in the current state
NumCoordinatorsAsClaimed ==
    \A job \in Jobs :
        /\ ~archived[job_event[job]]
            => NumCoordinators(job) = Cardinality(coordinators[job])
        /\ archived[job_event[job]]
            => NumCoordinators(job) = archived_number_coordinators[job]

\* C5: after any sequence of coordinator additions, removals and archiving:
\* while the event is not archived num_coordinators is the current number of
\* coordinators of the job; while it is archived num_coordinators is
\* archived_number_coordinators and no addition or removal changes it.
C5_NumCoordinators ==
    /\ [](NumCoordinatorsAsClaimed
          /\ (last.op = "num_coordinators" =>
                last.ret = IF archived[job_event[last.job]]
                           THEN archived_number_coordinators[last.job]
                           ELSE Cardinality(coordinators[last.job])))
    /\ [][\A job \in Jobs :
            (archived[job_event[job]] /\ coordinators' # coordinators)
                => NumCoordinators(job)' = NumCoordinators(job)]_vars

\* num_coordinators was read for a job of an archived event whose coordinators
\* changed after the archiving
C5_Witness ==
    /\ last.op = "num_coordinators"
    /\ archived[job_event[last.job]]
    /\ last.ret # Cardinality(coordinators[last.job])
    /\ last.ret > 0

\* ----------------------------------------------- Job.helpers_and_coordinators

\* the rows of a LEFT OUTER JOIN: the related rows, or one NULL row
LeftJoin(related) == IF related = {} THEN {NULL} ELSE related

\* the jobs that list the helper as coordinator
CoordinatorOf(helper) == {j \in Jobs : helper \in coordinators[j]}

\* line 99: `helpers | coordinators` selects the Helper rows joined to their
\* shifts and to the jobs they coordinate WHERE shift.job = job OR the
\* coordinated job = job; the number of result rows per helper
CombinedRows(job) ==
    [h \in Helpers |->
        Cardinality({r \in LeftJoin(helper_shifts[h])
                            \X LeftJoin(CoordinatorOf(h)) :
            \/ (r[1] # NULL /\ shift_job[r[1]] = job)
            \/ r[2] = job})]

Distinct_Missing(rows) == rows

\* lines 97-98: .distinct(), kept by the combined query
Distinct(rows) == [h \in Helpers |-> IF rows[h] > 0 THEN 1 ELSE 0]

\* lines 96-99: Job.helpers_and_coordinators(), as the number of times each
\* helper appears in the returned queryset
helpers_and_coordinators(job) == Distinct(CombinedRows(job))

HelpersAndCoordinatorsCall ==
    \E job \in Jobs :
        /\ last' = [op |-> "helpers_and_coordinators", job |-> job,
                    arg |-> <<>>, ret |-> helpers_and_coordinators(job)]
        /\ UNCHANGED <<validateVars, formVars, shiftVars, badgeVars, adminVars, coordVars>>

\* helper.shifts.add(shift)
AddHelperShift ==
    \E helper \in Helpers : \E shift \in Shifts \ helper_shifts[helper] :
        /\ shift_job[shift] # NULL
        /\ helper_shifts' = [helper_shifts EXCEPT ![helper] = @ \cup {shift}]
        /\ last' = NoCall
        /\ UNCHANGED <<validateVars, formVars, shiftVars, badgeVars, adminVars, archived, coordinators,
                       archived_number_coordinators>>

\* helper.shifts.remove(shift)
RemoveHelperShift ==
    \E helper \in Helpers : \E shift \in helper_shifts[helper] :
        /\ helper_shifts' = [helper_shifts EXCEPT ![helper] = @ \ {shift}]
        /\ last' = NoCall
        /\ UNCHANGED <<validateVars, formVars, shiftVars, badgeVars, adminVars, archived, coordinators,
                       archived_number_coordinators>>

InitHelpers ==
    /\ ShiftsIdle
    /\ AdminIdle
    /\ CoordIdle
    /\ BadgeIdle
    /\ FormIdle
    /\ ValidateIdle
    /\ last = NoCall

NextHelpers ==
    \/ HelpersAndCoordinatorsCall
    \/ AddHelperShift
    \/ RemoveHelperShift
    \/ AddCoordinator
    \/ RemoveCoordinator

SpecHelpers == InitHelpers /\ [][NextHelpers]_vars

\* C7: helpers_and_coordinators returns exactly the union of the helpers with
\* at least one shift of the job and the coordinators of the job: each of
\* them exactly once, and no other helper.
C7_UnionWithoutDuplicates ==
    last.op = "helpers_and_coordinators" =>
        \A h \in Helpers :
            last.ret[h] =
                IF \/ \E s \in helper_shifts[h] : shift_job[s] = last.job
                   \/ h \in coordinators[last.job]
                THEN 1 ELSE 0

\* the call returned, once, a coordinator of the job who holds two of its
\* shifts, and left out a helper who only has to do with the other job
C7_Witness ==
    /\ last.op = "helpers_and_coordinators"
    /\ \E h \in Helpers :
        /\ h \in coordinators[last.job]
        /\ Cardinality({s \in helper_shifts[h] : shift_job[s] = last.job}) = 2
        /\ last.ret[h] = 1
    /\ \E h \in Helpers :
        /\ last.ret[h] = 0
        /\ helper_shifts[h] # {}
        /\ CoordinatorOf(h) # {}

\* ------------------------------------------------------------ job_pre_save

PreSaveCreates_IgnoresExisting(event_badges, instance_badge_defaults) ==
    event_badges

PreSaveCreates_IgnoresBadges(event_badges, instance_badge_defaults) ==
    instance_badge_defaults = NULL

\* line 148: instance.event.badges and not instance.badge_defaults
PreSaveCreates(event_badges, instance_badge_defaults) ==
    event_badges /\ instance_badge_defaults = NULL

\* Job.objects.get(pk=job): a Job object with the columns of the row
LoadJob ==
    \E i \in Insts : \E job \in Jobs :
        /\ inst' = [inst EXCEPT ![i] =
                        [job |-> job, badge_defaults |-> badge_defaults[job]]]
        /\ last' = NoCall
        /\ UNCHANGED <<validateVars, formVars, shiftVars, adminVars, coordVars, badges,
                       badge_defaults, badge_rows, created_for>>

\* lines 140-152: instance.save() of a loaded Job object: job_pre_save
\* creates and attaches the badge defaults if necessary, then the row is
\* written with the columns of the object
SaveJob ==
    \E i \in Insts :
        /\ inst[i].job # NULL
        /\ LET job == inst[i].job
               create == PreSaveCreates(badges[job_event[job]],
                                        inst[i].badge_defaults)
               defaults == IF create THEN badge_rows + 1
                           ELSE inst[i].badge_defaults
           IN  /\ create => badge_rows < MaxBadgeRows
               /\ badge_rows' = IF create THEN badge_rows + 1 ELSE badge_rows
               /\ created_for' = IF create
                                 THEN [created_for EXCEPT ![job] = @ + 1]
                                 ELSE created_for
               /\ inst' = [inst EXCEPT ![i].badge_defaults = defaults]
               /\ badge_defaults' = [badge_defaults EXCEPT ![job] = defaults]
               /\ last' = [op |-> "save", job |-> job, arg |-> i,
                           ret |-> <<>>]
        /\ UNCHANGED <<validateVars, formVars, shiftVars, adminVars, coordVars, badges>>

\* the badge subsystem of an event is switched on or off
SetBadges ==
    \E event \in Events :
        /\ badges' = [badges EXCEPT ![event] = ~@]
        /\ last' = NoCall
        /\ UNCHANGED <<validateVars, formVars, shiftVars, adminVars, coordVars, badge_defaults,
                       badge_rows, created_for, inst>>

InitBadge ==
    /\ ShiftsIdle
    /\ AdminIdle
    /\ CoordIdle
    /\ BadgeIdle
    /\ FormIdle
    /\ ValidateIdle
    /\ last = NoCall

NextBadge ==
    \/ LoadJob
    \/ SaveJob
    \/ SetBadges

SpecBadge == InitBadge /\ [][NextBadge]_vars

\* C6: saving a Job whose event has badges enabled and whose badge_defaults is
\* unset creates exactly one BadgeDefaults row and leaves the Job with a
\* non-null badge_defaults; saving a Job whose badge_defaults is set creates
\* no row and leaves the reference unchanged; saving a Job whose event has
\* badges disabled creates no row.
C6_SaveProvidesBadgeDefaults ==
    [][last'.op = "save" =>
        LET i == last'.arg
            job == last'.job
        IN  /\ (badges[job_event[job]] /\ inst[i].badge_defaults = NULL)
                => /\ badge_rows' = badge_rows + 1
                   /\ inst'[i].badge_defaults = badge_rows'
                   /\ inst'[i].badge_defaults # NULL
                   /\ badge_defaults'[job] # NULL
            /\ inst[i].badge_defaults # NULL
                => /\ badge_rows' = badge_rows
                   /\ inst'[i].badge_defaults = inst[i].badge_defaults
            /\ ~badges[job_event[job]] => badge_rows' = badge_rows]_vars

\* a save created the first BadgeDefaults row and attached it to the job
C6_Witness ==
    /\ last.op = "save"
    /\ badges[job_event[last.job]]
    /\ badge_rows = 1
    /\ badge_defaults[last.job] = 1
    /\ inst[last.arg].badge_defaults = 1

\* ------------------------------------------------------------- view form

\* Link.event of every link row
LinkEvent(link) == ((link - 1) % 2) + 1

\* the link_pk of a request: NULL (no link in the URL), the pk of a link row,
\* a well-formed pk without a row (Link.DoesNotExist), a malformed pk
\* (ValueError)
MissingLinkPk == NumLinks + 1
MalformedLinkPk == NumLinks + 2
LinkPks == {NULL} \cup Links \cup {MissingLinkPk, MalformedLinkPk}

\* the request body: GET, POST without data, POST with data that the form
\* rejects or accepts
FormData == {"GET", "POST_empty", "POST_invalid", "POST_valid"}

\* the outcome of helper.send_mail: delivered, an smtplib.SMTPException, or
\* another transport error (socket error, timeout)
MailOutcomes == {"sent", "SMTPException", "OSError"}

\* request.user: NULL is the anonymous user
RequestUsers == {NULL} \cup Users

LinkOutcome_NoEventCheck(link_pk, event) ==
    IF link_pk = NULL THEN "no_link"
    ELSE IF link_pk \notin Links THEN "invalid_link"
         ELSE "link"

LinkOutcome_InvalidIgnored(link_pk, event) ==
    IF link_pk = NULL \/ link_pk \notin Links THEN "no_link"
    ELSE IF LinkEvent(link_pk) # event THEN "404"
         ELSE "link"

\* lines 38-51: get link if given
LinkOutcome(link_pk, event) ==
    IF link_pk = NULL THEN "no_link"
    ELSE IF link_pk \notin Links THEN "invalid_link"
         ELSE IF LinkEvent(link_pk) # event THEN "404"
              ELSE "link"

PermissionGate_Open(event_active, has_link, authenticated, is_involved) ==
    "pass"

PermissionGate_Anon(event_active, has_link, authenticated, is_involved) ==
    IF ~event_active /\ ~has_link /\ ~authenticated THEN "not_active"
    ELSE "pass"

\* lines 53-62: check permission
PermissionGate(event_active, has_link, authenticated, is_involved) ==
    IF ~event_active /\ ~has_link
    THEN IF ~authenticated THEN "not_active"
         ELSE IF ~is_involved THEN "nopermission"
              ELSE "pass"
    ELSE "pass"

\* line 65: request.POST or None; an unbound form is never valid
FormIsBound(data) == data \in {"POST_invalid", "POST_valid"}

\* line 68: form.is_valid()
FormIsValid(data) == FormIsBound(data) /\ data = "POST_valid"

MailCaught_Nothing(outcome) == FALSE

\* line 73: except SMTPException
MailCaught(outcome) == outcome = "SMTPException"

Respond(response) == [req EXCEPT !.pc = "done", !.response = response]

\* a request for the form arrives
StartRequest ==
    /\ req.pc = "idle"
    /\ helper_rows < MaxRegistrations
    /\ \E url \in Events \cup {NULL} : \E link_pk \in LinkPks :
       \E user \in RequestUsers : \E data \in FormData :
        req' = [NoRequest EXCEPT !.pc = "resolve_event", !.url = url,
                                 !.link_pk = link_pk, !.user = user,
                                 !.data = data,
                                 !.rows_before = helper_rows,
                                 !.mails_before = mail_attempts]
    /\ last' = NoCall
    /\ UNCHANGED <<validateVars, shiftVars, adminVars, coordVars, badgeVars, active,
                   involved, helper_rows, mail_attempts>>

\* line 35: get_object_or_404(Event, url_name=event_url_name)
ResolveEvent ==
    /\ req.pc = "resolve_event"
    /\ req' = IF req.url = NULL THEN Respond("404")
              ELSE [req EXCEPT !.pc = "resolve_link", !.event = req.url,
                               !.event_active = active[req.url]]
    /\ UNCHANGED <<validateVars, shiftVars, adminVars, coordVars, badgeVars, active,
                   involved, helper_rows, mail_attempts, last>>

\* lines 37-51: get link if given, check if link belongs to event
ResolveLink ==
    /\ req.pc = "resolve_link"
    /\ LET outcome == LinkOutcome(req.link_pk, req.event)
       IN  req' = IF outcome = "invalid_link" THEN Respond("invalid_link")
                  ELSE IF outcome = "404" THEN Respond("404")
                  ELSE IF outcome = "link"
                       THEN [req EXCEPT !.pc = "permission",
                                        !.link = req.link_pk]
                       ELSE [req EXCEPT !.pc = "permission"]
    /\ UNCHANGED <<validateVars, shiftVars, adminVars, coordVars, badgeVars, active,
                   involved, helper_rows, mail_attempts, last>>

\* lines 53-62: check permission
CheckPermission ==
    /\ req.pc = "permission"
    /\ LET gate == PermissionGate(req.event_active, req.link # NULL,
                                  req.user # NULL,
                                  req.user \in involved[req.event])
       IN  req' = IF gate = "pass" THEN [req EXCEPT !.pc = "handle_form"]
                  ELSE Respond(gate)
    /\ UNCHANGED <<validateVars, shiftVars, adminVars, coordVars, badgeVars, active,
                   involved, helper_rows, mail_attempts, last>>

HandleForm_SavesUnvalidated ==
    /\ req.pc = "handle_form"
    /\ helper_rows' = helper_rows + 1
    /\ req' = IF FormIsValid(req.data)
              THEN [req EXCEPT !.pc = "send_mail", !.helper = helper_rows + 1]
              ELSE Respond("form")
    /\ UNCHANGED <<validateVars, shiftVars, adminVars, coordVars, badgeVars, active,
                   involved, mail_attempts, last>>

\* lines 64-69 and 79-81: handle form; a valid form saves a new Helper,
\* otherwise the form is rendered
HandleForm ==
    /\ req.pc = "handle_form"
    /\ IF FormIsValid(req.data)
       THEN /\ helper_rows' = helper_rows + 1
            /\ req' = [req EXCEPT !.pc = "send_mail",
                                  !.helper = helper_rows + 1]
       ELSE /\ helper_rows' = helper_rows
            /\ req' = Respond("form")
    /\ UNCHANGED <<validateVars, shiftVars, adminVars, coordVars, badgeVars, active,
                   involved, mail_attempts, last>>

SendMail_Retries ==
    /\ req.pc = "send_mail"
    /\ mail_attempts' = mail_attempts + 2
    /\ req' = [req EXCEPT !.pc = "redirect", !.mail = "sent"]
    /\ UNCHANGED <<validateVars, shiftVars, adminVars, coordVars, badgeVars, active,
                   involved, helper_rows, last>>

\* lines 71-75: helper.send_mail(request, internal=False); an SMTPException
\* becomes an error message, any other exception leaves the view
SendMail ==
    /\ req.pc = "send_mail"
    /\ mail_attempts' = mail_attempts + 1
    /\ \E outcome \in MailOutcomes :
        req' = IF outcome = "sent"
               THEN [req EXCEPT !.pc = "redirect", !.mail = outcome]
               ELSE IF MailCaught(outcome)
                    THEN [req EXCEPT !.pc = "redirect", !.mail = outcome,
                                     !.messages = Append(@, "error")]
                    ELSE [req EXCEPT !.pc = "done", !.mail = outcome,
                                     !.response = "500"]
    /\ UNCHANGED <<validateVars, shiftVars, adminVars, coordVars, badgeVars, active,
                   involved, helper_rows, last>>

\* lines 76-77: HttpResponseRedirect(reverse('registered',
\*                                  args=[event.url_name, helper.pk]))
Redirect ==
    /\ req.pc = "redirect"
    /\ req' = [req EXCEPT !.pc = "done", !.response = "redirect",
                          !.redirect = <<req.event, req.helper>>]
    /\ UNCHANGED <<validateVars, shiftVars, adminVars, coordVars, badgeVars, active,
                   involved, helper_rows, mail_attempts, last>>

\* the response has been delivered and the request object is dropped
EndRequest ==
    /\ req.pc = "done"
    /\ req' = NoRequest
    /\ UNCHANGED <<validateVars, shiftVars, adminVars, coordVars, badgeVars, active,
                   involved, helper_rows, mail_attempts, last>>

\* the registration of an event is opened or closed
SetActive ==
    \E event \in Events :
        /\ active' = [active EXCEPT ![event] = ~@]
        /\ UNCHANGED <<validateVars, shiftVars, adminVars, coordVars, badgeVars, involved,
                       helper_rows, mail_attempts, req, last>>

InitForm ==
    /\ ShiftsIdle
    /\ AdminIdle
    /\ CoordIdle
    /\ BadgeIdle
    /\ active = [e \in Events |-> FALSE]
    /\ involved \in [Events -> SUBSET Users]
    /\ helper_rows = 0
    /\ mail_attempts = 0
    /\ req = NoRequest
    /\ ValidateIdle
    /\ last = NoCall

NextForm ==
    \/ StartRequest
    \/ ResolveEvent
    \/ ResolveLink
    \/ CheckPermission
    \/ HandleForm
    \/ SendMail
    \/ Redirect
    \/ EndRequest
    \/ SetActive

SpecForm == InitForm /\ [][NextForm]_vars

\* the request created no Helper and attempted no mail
NothingRegistered ==
    /\ req.helper = NULL
    /\ helper_rows = req.rows_before
    /\ req.mail = "none"
    /\ mail_attempts = req.mails_before

\* C8: when the event is not active and no link is supplied, an
\* unauthenticated requester gets the "not active" page and an authenticated
\* requester who is not involved gets the "no permission" page; for GET and
\* POST with any data no Helper is created and no mail is sent.
C8_InactiveEventGate ==
    (/\ req.event # NULL
     /\ ~req.event_active
     /\ req.link_pk = NULL
     /\ req.pc \notin {"resolve_event", "resolve_link", "permission"})
        => /\ req.user = NULL
                => (req.response = "not_active" /\ NothingRegistered)
           /\ (req.user # NULL /\ req.user \notin involved[req.event])
                => (req.response = "nopermission" /\ NothingRegistered)

\* a POST with acceptable data from an authenticated user who is not involved
\* in the inactive event was answered with the "no permission" page
C8_Witness ==
    /\ req.pc = "done"
    /\ req.event # NULL
    /\ ~req.event_active
    /\ req.link_pk = NULL
    /\ req.user # NULL
    /\ req.user \notin involved[req.event]
    /\ req.data = "POST_valid"
    /\ req.response = "nopermission"

\* C9: a supplied link that exists but belongs to another event than the
\* event of the URL ends the request with 404, whatever the active flag, the
\* requester and the form data, and no Helper is created.
C9_ForeignLinkIs404 ==
    (/\ req.event # NULL
     /\ req.link_pk \in Links
     /\ LinkEvent(req.link_pk) # req.event
     /\ req.pc \notin {"resolve_event", "resolve_link"})
        => (req.pc = "done" /\ req.response = "404" /\ NothingRegistered)

\* a POST with acceptable data for an active event, from an involved user,
\* with the link of the other event, ended with 404
C9_Witness ==
    /\ req.pc = "done"
    /\ req.event # NULL
    /\ req.event_active
    /\ req.user # NULL
    /\ req.user \in involved[req.event]
    /\ req.link_pk \in Links
    /\ LinkEvent(req.link_pk) # req.event
    /\ req.data = "POST_valid"
    /\ req.response = "404"

PassedGate ==
    \/ req.pc \in {"handle_form", "send_mail", "redirect"}
    \/ req.pc = "done" /\ req.response \in {"form", "redirect", "500"}

\* C11: a form request that passes the permission gate with valid form data
\* saves exactly one new Helper and ends with a redirect to the registered
\* view keyed by the event's url_name and the id of that Helper.
C11_ValidSubmissionRedirects ==
    (PassedGate /\ FormIsValid(req.data) /\ req.pc = "done")
        => /\ helper_rows = req.rows_before + 1
           /\ req.helper = helper_rows
           /\ req.response = "redirect"
           /\ req.redirect = <<req.event, req.helper>>

\* C13: a form request whose data fails validation (a GET included)
\* re-renders the form and changes no persistent state: no Helper is created
\* or modified and no mail is sent.
C13_InvalidDataChangesNothing ==
    /\ []((req.pc # "idle" /\ ~FormIsValid(req.data)) =>
            /\ NothingRegistered
            /\ (PassedGate /\ req.pc = "done") => req.response = "form")
    /\ [][(~FormIsValid(req.data) /\ req.pc # "idle" /\ req'.pc # "idle")
            => (helper_rows' = helper_rows
                /\ mail_attempts' = mail_attempts)]_vars

\* a POST with data that the form rejects was answered with the form page
\* after an earlier request had registered a helper
C13_Witness ==
    /\ req.pc = "done"
    /\ req.data = "POST_invalid"
    /\ req.response = "form"
    /\ helper_rows = 1
    /\ req.rows_before = 1

\* C15: a Helper is created only if the event exists and the event is active,
\* or a link that exists and belongs to this event was supplied, or the
\* requester is authenticated and involved in the event.
C15_HelperOnlyBehindGate ==
    /\ [](req.helper # NULL =>
            /\ req.event # NULL
            /\ \/ req.event_active
               \/ (req.link_pk \in Links /\ LinkEvent(req.link_pk) = req.event)
               \/ (req.user # NULL /\ req.user \in involved[req.event]))
    /\ [][helper_rows' # helper_rows => req'.helper = helper_rows']_vars

\* a Helper was created for an inactive event by an anonymous requester who
\* supplied a link of the event
C15_Witness ==
    /\ req.helper # NULL
    /\ ~req.event_active
    /\ req.user = NULL
    /\ req.link = req.link_pk
    /\ req.link # NULL

\* C16: whatever error send_mail raises on a transport failure (an SMTP
\* protocol error or another transport error), form catches it, records a
\* user-visible warning and ends with the redirect, with the Helper persisted.
C16_EveryMailFailureIsCaught ==
    (req.mail \in {"SMTPException", "OSError"} /\ req.pc = "done")
        => /\ req.response = "redirect"
           /\ req.messages = <<"error">>
           /\ req.helper \in 1..helper_rows

\* C17: the link is resolved before the permission gate: a supplied link pk
\* that is malformed or has no row gives the "invalid link" page, whatever
\* the active flag and the requester, and no Helper is created.
C17_InvalidLinkBeforeGate ==
    (/\ req.event # NULL
     /\ req.link_pk \in {MissingLinkPk, MalformedLinkPk}
     /\ req.pc \notin {"resolve_event", "resolve_link"})
        => /\ req.pc = "done"
           /\ req.response = "invalid_link"
           /\ NothingRegistered

\* an anonymous POST with a malformed link pk for an inactive event was
\* answered with the "invalid link" page
C17_Witness ==
    /\ req.pc = "done"
    /\ req.event # NULL
    /\ ~req.event_active
    /\ req.user = NULL
    /\ req.link_pk = MalformedLinkPk
    /\ req.data = "POST_valid"
    /\ req.response = "invalid_link"

\* C20: in every run of form a mail is attempted at most once, only after a
\* Helper was saved by this request and before the redirect is returned; on
\* every path that ends in 404, the invalid-link, not-active or no-permission
\* page or the form page, no mail is attempted.
C20_MailOnceAfterSave ==
    /\ [](req.pc # "idle" =>
          /\ mail_attempts - req.mails_before \in {0, 1}
          /\ (mail_attempts # req.mails_before) = (req.mail # "none")
          /\ req.mail # "none" => req.helper # NULL
          /\ req.response = "redirect" => req.mail # "none"
          /\ req.response \in {"404", "invalid_link", "not_active",
                                "nopermission", "form"}
                => (req.mail = "none" /\ mail_attempts = req.mails_before))
    /\ [][mail_attempts' # mail_attempts
            => (/\ req.helper # NULL
                /\ req.helper \in 1..helper_rows
                /\ req.response = "none"
                /\ req.mail = "none")]_vars

\* a request was answered with the redirect after one mail, and an earlier
\* request had sent one too
C20_Witness ==
    /\ req.response = "redirect"
    /\ req.mail = "sent"
    /\ req.mails_before = 1
    /\ mail_attempts = 2

\* ---------------------------------------------- more claims about job_pre_save

\* C18: after any sequence of Job saves, saves from separately loaded copies
\* of the same Job and saves interleaved with enabling badges included, at
\* most one BadgeDefaults row has been created for any one Job.
C18_OneBadgeDefaultsPerJob ==
    \A job \in Jobs : created_for[job] <= 1

\* ------------------------------------------- more claims about shifts_by_day

\* the position of the shift in the list (0: it is not in the list)
RECURSIVE IndexOf(_, _, _)
IndexOf(list, shift, i) ==
    IF i > Len(list) THEN 0
    ELSE IF list[i] = shift THEN i
         ELSE IndexOf(list, shift, i + 1)

\* the collection that the call iterated over, as the caller sees it
InputOf(call) ==
    IF call.arg.supplied THEN call.arg.items ELSE ShiftSetAll(call.job)

\* C19: in the result of shifts_by_day two shifts of the same date with equal
\* begin appear in the same relative order as in the input collection.
C19_TiesKeepInputOrder ==
    last.op = "shifts_by_day" =>
        LET input == InputOf(last)
        IN  \A i \in 1..Len(last.ret) :
            \A k \in 1..Len(last.ret[i][2]) : \A m \in 1..Len(last.ret[i][2]) :
                LET a == last.ret[i][2][k]
                    b == last.ret[i][2][m]
                IN  (/\ k < m
                     /\ shift_begin[a] = shift_begin[b]
                     /\ IndexOf(input, a, 1) # 0
                     /\ IndexOf(input, b, 1) # 0)
                        => IndexOf(input, a, 1) < IndexOf(input, b, 1)

\* a list of three shifts was passed in which the shift with the higher pk
\* comes before a shift with the same begin, behind a later shift of the day
C19_Witness ==
    /\ last.op = "shifts_by_day"
    /\ last.arg.supplied
    /\ Len(last.arg.items) = 3
    /\ Len(last.ret) = 1
    /\ LET in == last.arg.items
       IN  /\ shift_begin[in[1]] > shift_begin[in[2]]
           /\ shift_begin[in[2]] = shift_begin[in[3]]
           /\ in[2] > in[3]
           /\ last.ret[1][2] = <<in[2], in[3], in[1]>>

\* --------------------------------------------------------- view validate

\* the event that a helper row belongs to
HelperEvent(helper) == ((helper - 1) % 2) + 1

\* a helper pk without a row
MissingHelperPk == NumHelpers + 1

\* get_or_404(event_url_name, helper_pk=helper_id) finds the event and a
\* helper of that event
GetOr404Finds(url, helper_pk) ==
    /\ url # NULL
    /\ helper_pk \in Helpers
    /\ HelperEvent(helper_pk) = url

ValidationUsed_Always(event_validation) == TRUE

\* lines 98-100: 404 if validation is not used
ValidationUsed(event_validation) == event_validation

\* the validate requests that are being handled
InFlight == {v \in Validators : vreq[v].pc # "idle"}

RECURSIVE LoggedUpTo(_)
LoggedUpTo(n) ==
    IF n = 0 THEN 0 ELSE Len(validate_log[n]) + LoggedUpTo(n - 1)

\* a request for validate arrives
ValidateStart ==
    \E v \in Validators :
        /\ vreq[v].pc = "idle"
        /\ LoggedUpTo(NumHelpers) + Cardinality(InFlight) < MaxValidateCalls
        /\ \E url \in Events \cup {NULL} :
           \E helper_pk \in Helpers \cup {MissingHelperPk} :
            vreq' = [vreq EXCEPT ![v] =
                        [NoValidate EXCEPT !.pc = "lookup", !.url = url,
                                           !.helper_pk = helper_pk]]
        /\ UNCHANGED <<shiftVars, adminVars, coordVars, badgeVars, formVars,
                       mail_validation, helper_validated, validate_log, last>>

\* lines 96-100: get_or_404 loads the event and the helper; 404 if the
\* validation is not used
ValidateLookup ==
    \E v \in Validators :
        /\ vreq[v].pc = "lookup"
        /\ LET r == vreq[v]
           IN  vreq' = [vreq EXCEPT ![v] =
                IF ~GetOr404Finds(r.url, r.helper_pk)
                THEN [r EXCEPT !.pc = "done", !.response = "404"]
                ELSE IF ~ValidationUsed(mail_validation[r.url])
                     THEN [r EXCEPT !.pc = "done", !.response = "404",
                                    !.event_validation = mail_validation[r.url],
                                    !.validated = helper_validated[r.helper_pk]]
                     ELSE [r EXCEPT !.pc = "validate",
                                    !.event_validation = mail_validation[r.url],
                                    !.validated = helper_validated[r.helper_pk]]]
        /\ UNCHANGED <<shiftVars, adminVars, coordVars, badgeVars, formVars,
                       mail_validation, helper_validated, validate_log, last>>

\* lines 102-111: already_validated is the flag of the loaded helper object,
\* the flag is set and saved, validate.html is rendered
ValidateSave ==
    \E v \in Validators :
        /\ vreq[v].pc = "validate"
        /\ LET r == vreq[v]
               already_validated == r.validated
           IN  /\ helper_validated' =
                    [helper_validated EXCEPT ![r.helper_pk] = TRUE]
               /\ validate_log' =
                    [validate_log EXCEPT ![r.helper_pk] =
                        Append(@, already_validated)]
               /\ vreq' = [vreq EXCEPT ![v] =
                    [r EXCEPT !.pc = "done", !.validated = TRUE,
                              !.already_validated = already_validated,
                              !.response = "validate"]]
        /\ UNCHANGED <<shiftVars, adminVars, coordVars, badgeVars, formVars,
                       mail_validation, last>>

\* the response has been delivered and the request object is dropped
ValidateEnd ==
    \E v \in Validators :
        /\ vreq[v].pc = "done"
        /\ vreq' = [vreq EXCEPT ![v] = NoValidate]
        /\ UNCHANGED <<shiftVars, adminVars, coordVars, badgeVars, formVars,
                       mail_validation, helper_validated, validate_log, last>>

\* the mail validation of an event is switched on or off
SetMailValidation ==
    \E event \in Events :
        /\ mail_validation' = [mail_validation EXCEPT ![event] = ~@]
        /\ UNCHANGED <<shiftVars, adminVars, coordVars, badgeVars, formVars,
                       helper_validated, vreq, validate_log, last>>

InitValidate ==
    /\ ShiftsIdle
    /\ AdminIdle
    /\ CoordIdle
    /\ BadgeIdle
    /\ FormIdle
    /\ ValidateIdle
    /\ last = NoCall

NextValidate ==
    \/ ValidateStart
    \/ ValidateLookup
    \/ ValidateSave
    \/ ValidateEnd
    \/ SetMailValidation

SpecValidate == InitValidate /\ [][NextValidate]_vars

\* C12: for an event with mail_validation and a helper not yet validated,
\* calling validate twice (in sequence or interleaved with other requests)
\* reports "not already validated" on the first call and "already validated"
\* on the second; the persisted flag is TRUE after each call, and any number
\* of calls leaves the same end state as one call.
C12_SecondCallSeesValidated ==
    \A h \in Helpers :
        /\ Len(validate_log[h]) >= 1
            => (validate_log[h][1] = FALSE /\ helper_validated[h])
        /\ Len(validate_log[h]) >= 2 => validate_log[h][2] = TRUE

\* C14: validate for an event whose mail_validation is disabled ends with 404
\* and leaves the helper's validated flag unchanged.
C14_ValidationDisabledIs404 ==
    /\ [](\A v \in Validators :
            (/\ vreq[v].pc \in {"validate", "done"}
             /\ GetOr404Finds(vreq[v].url, vreq[v].helper_pk)
             /\ ~vreq[v].event_validation)
                => (vreq[v].pc = "done" /\ vreq[v].response = "404"))
    /\ [][\A v \in Validators :
            (vreq'[v] # vreq[v] /\ vreq'[v].response = "404")
                => (helper_validated' = helper_validated
                    /\ validate_log' = validate_log)]_vars

\* validate ended with 404 for an unvalidated helper of an event without mail
\* validation, while the other event uses it
C14_Witness ==
    \E v \in Validators :
        /\ vreq[v].pc = "done"
        /\ vreq[v].response = "404"
        /\ GetOr404Finds(vreq[v].url, vreq[v].helper_pk)
        /\ ~vreq[v].event_validation
        /\ ~helper_validated[vreq[v].helper_pk]
        /\ \E e \in Events : mail_validation[e]

====
